---- MODULE Spec2Model ----
(***************************************************************************)
(* Model of the cluster handlers of backend/server.js:                     *)
(*   POST /api/cluster/insert-and-route   (shard routing + placement)      *)
(*   POST /api/cluster/replicate-demo     (write node1, verify on node2)   *)
(*   GET  /api/cluster/shard-counts, /api/cluster/replication-status       *)
(* and of textToSQL of backend/ai.js (the self-correction loop),           *)
(* together with the two ClickHouse nodes they talk to: the Distributed    *)
(* table on node1 that fans rows out to events_local of either shard, and  *)
(* the events_replicated table that Keeper copies from node1 to node2.     *)
(*                                                                         *)
(* 32-bit words are kept as pairs <<hi, lo>> of 16-bit halves, because the *)
(* values of an unsigned 32-bit hash do not fit the checker's integers.    *)
(***************************************************************************)
EXTENDS Integers, Sequences, FiniteSets, TLC

\* ------------------------------------------------------------------------
\* Bounds of the model
\* ------------------------------------------------------------------------
NumRouteRequests == 2
NumReplRequests == 1
NumReadRequests == 1
MaxKeyLen == 7
MaxSeedRows == 1
MaxTicks == 4
TickMs == 500
NumToolCalls == 1
MaxSeedCalls == 3
MaxMistakeRequests == 3
SeedEvents == 2
NumHealthRequests == 2

\* ------------------------------------------------------------------------
\* Program constants
\* ------------------------------------------------------------------------
ReplWaitMs == 1500
NumShards == 2

\* ------------------------------------------------------------------------
\* State
\* ------------------------------------------------------------------------
\* local            cluster_demo.events_local of each node: rows per user_id
\* distBuffer       rows accepted by events_distributed on node1, not yet forwarded
\* written          rows acknowledged as written, per user_id
\* eventsReplicated cluster_demo.events_replicated of each node: set of messages
\* now              wall clock, in ms
\* route            the insert-and-route requests
\* repl             the replicate-demo requests
\* reads            the shard-counts and replication-status requests
\* ai               the textToSQL calls
\* mcp              the CallTool requests of the MCP server
\* rag              demo.knowledge_embeddings and the seedRAGKnowledge calls
\* db               the demo tables of the 13 Mistakes tab and telemetry_events
\* mistake          the request of the 13 Mistakes tab being served
\* health           the cluster/health requests
VARIABLES local, distBuffer, written, eventsReplicated, now, route, repl, reads, ai,
          mcp, rag, db, mistake, health

vars == << local, distBuffer, written, eventsReplicated, now, route, repl, reads, ai,
          mcp, rag, db, mistake, health >>

\* ------------------------------------------------------------------------
\* 16-bit / 32-bit arithmetic
\* ------------------------------------------------------------------------
W16 == 65536
W15 == 32768

RECURSIVE Xor16(_, _)
Xor16(a, b) ==
  IF a = 0 THEN b
  ELSE IF b = 0 THEN a
  ELSE ((a + b) % 2) + 2 * Xor16(a \div 2, b \div 2)

\* full 32-bit product of two 16-bit numbers, as <<hi, lo>>
Mul16(a, b) ==
  LET b1 == b \div 256
      b0 == b % 256
      p1 == a * b1
      p0 == a * b0
      low == (p1 % 256) * 256 + p0
  IN  << (p1 \div 256) + (low \div W16), low % W16 >>

Xor32(x, y) == << Xor16(x[1], y[1]), Xor16(x[2], y[2]) >>

\* x * y mod 2^32
Mul32(x, y) ==
  LET ll == Mul16(x[2], y[2])
      hl == Mul16(x[1], y[2])
      lh == Mul16(x[2], y[1])
  IN  << (ll[1] + hl[2] + lh[2]) % W16, ll[2] >>

\* x + y mod 2^32
Add32(x, y) ==
  LET lo == x[2] + y[2]
  IN  << (x[1] + y[1] + (lo \div W16)) % W16, lo % W16 >>

RECURSIVE Pow2(_)
Pow2(n) == IF n = 0 THEN 1 ELSE 2 * Pow2(n - 1)

\* logical shift right / left of a 32-bit word by r, 0 < r < 16
Shr32Small(x, r) ==
  << x[1] \div Pow2(r), ((x[1] % Pow2(r)) * Pow2(16 - r)) + (x[2] \div Pow2(r)) >>

Shl32Small(x, r) ==
  << ((x[1] % Pow2(16 - r)) * Pow2(r)) + (x[2] \div Pow2(16 - r)),
     (x[2] % Pow2(16 - r)) * Pow2(r) >>

Shr32(x, r) == IF r = 16 THEN << 0, x[1] >>
               ELSE IF r < 16 THEN Shr32Small(x, r)
               ELSE Shr32Small(<< 0, x[1] >>, r - 16)

Shl32(x, r) == IF r = 16 THEN << x[2], 0 >>
               ELSE IF r < 16 THEN Shl32Small(x, r)
               ELSE Shl32Small(<< x[2], 0 >>, r - 16)

Rotl32(x, r) == Add32(Shl32(x, r), Shr32(x, 32 - r))

\* ------------------------------------------------------------------------
\* User ids: strings as sequences of UTF-16 code units
\* ------------------------------------------------------------------------
KeyEmpty == << >>
KeyUser7 == << 117, 115, 101, 114, 45, 55 >>
KeyDemoUser == << 100, 101, 109, 111, 45, 117, 115, 101, 114 >>
Keys == { KeyEmpty, KeyUser7, KeyDemoUser }
\* user ids the seeding script can generate: user-1 .. user-499
SeedKeys == { KeyUser7 }

Node1 == "node1 (shard 01)"
Node2 == "node2 (shard 02)"
Nodes == { Node1, Node2 }

\* ------------------------------------------------------------------------
\* The hash of insert-and-route
\* ------------------------------------------------------------------------
\* x | 0 : the low 32 bits read as a signed integer (hi half carries the sign)
ToInt32(u) == << IF u[1] >= W15 THEN u[1] - W16 ELSE u[1], u[2] >>

\* BigInt.asUintN(32, BigInt(x)) of a signed 32-bit x
AsUintN32(s) == << IF s[1] < 0 THEN s[1] + W16 ELSE s[1], s[2] >>

\* signed 32-bit values and UTF-16 code units
Int32 == ( (0 - W15) .. (W15 - 1) ) \X ( 0 .. (W16 - 1) )
CharCodes == 0 .. (W16 - 1)

\* the callback of the reduce: (h, c) => Math.imul(31, h) + c.charCodeAt(0) | 0
HashStep ==
  [ h \in Int32, c \in CharCodes |->
      ToInt32(Add32(Mul32(<< 0, 31 >>, AsUintN32(h)), << 0, c >>)) ]

\* Array.prototype.reduce: the callback is applied from index i on
RECURSIVE Reduce(_, _, _)
Reduce(h, s, i) ==
  IF i > Len(s) THEN h ELSE Reduce(HashStep[h, s[i]], s, i + 1)

\* user_id.split('').reduce(HashStep, 0)
StringHash(s) == Reduce(<< 0, 0 >>, s, 1)

\* BigInt.prototype.toString: decimal digits of an unsigned 32-bit value
RECURSIVE ToDecimal(_)
ToDecimal(u) ==
  LET r1 == u[1] % 10
      q == << u[1] \div 10, (r1 * W16 + u[2]) \div 10 >>
      d == (r1 * W16 + u[2]) % 10
  IN  IF q = << 0, 0 >> THEN << d >> ELSE Append(ToDecimal(q), d)

\* parseInt of a string of decimal digits (values below 2^32 are exact)
RECURSIVE ParseInt(_)
ParseInt(ds) ==
  IF ds = << >> THEN << 0, 0 >>
  ELSE LET acc == ParseInt(SubSeq(ds, 1, Len(ds) - 1))
           lo == acc[2] * 10 + ds[Len(ds)]
       IN  << acc[1] * 10 + (lo \div W16), lo % W16 >>

\* a hash salted with the number of rows already written for the user
RouteHashSalted(user_id) ==
  ParseInt(ToDecimal(AsUintN32(
    HashStep[StringHash(user_id), 48 + written[user_id]])))

\* a hash that keeps the signed accumulator: parseInt(BigInt(reduce).toString())
RouteHashSigned(user_id) == StringHash(user_id)

\* const hash = parseInt(BigInt.asUintN(32, BigInt(reduce)).toString())
RouteHash(user_id) == ParseInt(ToDecimal(AsUintN32(StringHash(user_id))))

\* JavaScript n % 2 : the sign follows the dividend
JsMod2(n) == IF n[1] < 0 THEN 0 - (n[2] % 2) ELSE n[2] % 2

\* (hash % 2 === 0) ? 'node2 (shard 02)' : 'node1 (shard 01)'
ExpectedShard(hash) == IF JsMod2(hash) = 0 THEN Node2 ELSE Node1

\* const { user_id = 'demo-user' } = req.body
BodyUserId(b) == IF b.has_user_id THEN b.user_id ELSE KeyDemoUser

\* ------------------------------------------------------------------------
\* The sharding key of the Distributed table: murmurHash3_32(user_id)
\* (MurmurHash3 x86_32, seed 0, over the bytes of the string)
\* ------------------------------------------------------------------------
MurmurC1 == << 52382, 11601 >>
MurmurC2 == << 7047, 13715 >>
MurmurN == << 58964, 27492 >>
MurmurF1 == << 34283, 51819 >>
MurmurF2 == << 49842, 44597 >>

MurmurK(k) == Mul32(Rotl32(Mul32(k, MurmurC1), 15), MurmurC2)

\* unsigned 32-bit words
Word32 == ( 0 .. (W16 - 1) ) \X ( 0 .. (W16 - 1) )

\* the mixing of one four-byte block k into the state h
MurmurBlock ==
  [ h \in Word32, k \in Word32 |->
      Add32(Mul32(Rotl32(Xor32(h, MurmurK(k)), 13), << 0, 5 >>), MurmurN) ]

\* little-endian word of up to four bytes
LittleEndian(bs) ==
  LET b(i) == IF i <= Len(bs) THEN bs[i] ELSE 0
  IN  << b(4) * 256 + b(3), b(2) * 256 + b(1) >>

RECURSIVE MurmurBody(_, _)
MurmurBody(h, bs) ==
  IF Len(bs) >= 4
  THEN MurmurBody(MurmurBlock[h, LittleEndian(SubSeq(bs, 1, 4))],
                  SubSeq(bs, 5, Len(bs)))
  ELSE IF Len(bs) > 0 THEN Xor32(h, MurmurK(LittleEndian(bs)))
  ELSE h

MurmurFmix(h0) ==
  LET h1 == Xor32(h0, Shr32(h0, 16))
      h2 == Mul32(h1, MurmurF1)
      h3 == Xor32(h2, Shr32(h2, 13))
      h4 == Mul32(h3, MurmurF2)
  IN  Xor32(h4, Shr32(h4, 16))

MurmurHash3_32(s) ==
  MurmurFmix(Xor32(MurmurBody(<< 0, 0 >>, s), << 0, Len(s) >>))

\* hash(user_id) % 2 = 0 -> shard 02 -> node2, else shard 01 -> node1
ShardOf(user_id) ==
  IF MurmurHash3_32(user_id)[2] % NumShards = 0 THEN Node2 ELSE Node1

\* user ids the hash is checked on beyond the ones the requests carry: every
\* string of up to MaxKeyLen code units over a small alphabet
HashAlphabet == { 55, 65535 }

RECURSIVE StringsUpTo(_)
StringsUpTo(n) ==
  IF n = 0 THEN { << >> }
  ELSE LET shorter == StringsUpTo(n - 1)
       IN  shorter \cup { Append(s, c) : s \in shorter, c \in HashAlphabet }

HashInputs == StringsUpTo(MaxKeyLen)

\* both hashes are evaluated once per user id
RouteHashOf == [ k \in Keys \cup HashInputs |-> RouteHash(k) ]
ShardOfKey == [ k \in Keys |-> ShardOf(k) ]

\* ------------------------------------------------------------------------
\* Requests and the initial state
\* ------------------------------------------------------------------------
RouteIds == 1 .. NumRouteRequests
ReplIds == 1 .. NumReplRequests
ReadIds == 1 .. NumReadRequests

\* a count query of a request: not issued, in flight, answered or rejected
NoQuery == [ state |-> "none", rows |-> << >> ]
Pending == [ state |-> "pending", rows |-> << >> ]
Failed == [ state |-> "failed", rows |-> << >> ]
Answered(rows) == [ state |-> "ok", rows |-> rows ]

NoResponse == [ status |-> 0, body |-> [ error |-> "" ] ]
ErrorResponse(msg) == [ status |-> 400, body |-> [ error |-> msg ] ]

IdleRoute ==
  [ pc |-> "idle", user_id |-> KeyEmpty, hash |-> << 0, 0 >>,
    expectedShard |-> Node1, rowsBefore |-> 0,
    c1 |-> NoQuery, c2 |-> NoQuery, res |-> NoResponse ]

IdleRepl ==
  [ pc |-> "idle", msg |-> 0, start |-> 0, issued |-> 0, waitStart |-> 0,
    before |-> NoQuery, after |-> NoQuery, res |-> NoResponse ]

\* a textToSQL call before it is made: the locals of the function, the
\* statements that reached ClickHouse (sent) and what it answered (outcomes)
IdleAI ==
  [ pc |-> "idle", attempt |-> 0, generations |-> 0,
    messages |-> << >>, sql |-> << >>, rows |-> << >>, lastError |-> "",
    sent |-> << >>, outcomes |-> << >>,
    res |-> [ kind |-> "none" ] ]

IdleRead ==
  [ pc |-> "idle", kind |-> "shard-counts", q |-> << >>, res |-> NoResponse ]

McpIds == 1 .. NumToolCalls
HealthIds == 1 .. NumHealthRequests

\* a CallTool request before it arrives: its name and arguments, the
\* statements handed to runQuery (sent), the error raised inside the try block
\* (thrown) and what the handler returned or threw (res)
NoError == [ type |-> "none", code |-> "none", message |-> << >> ]

IdleMcp ==
  [ pc |-> "idle", name |-> "", args |-> [ parses |-> FALSE, sql |-> << >> ],
    stage |-> 0, sent |-> << >>, topology |-> << >>, thrown |-> NoError,
    res |-> [ kind |-> "none" ] ]

\* the documents of the knowledge base, in the order of the array
KNOWLEDGE_BASE == << "clickhouse-docs/mergetree", "ai-guide/mcp" >>

\* demo.knowledge_embeddings before the first start-up (no table, no chunk of
\* any document) and no seedRAGKnowledge call made; indexed counts how often
\* each document was inserted
IdleRag ==
  [ pc |-> "idle", calls |-> 0, doc |-> 0, table |-> FALSE,
    indexed |-> [ d \in 1 .. Len(KNOWLEDGE_BASE) |-> 0 ],
    res |-> "none" ]

\* the demo database before any lesson is run: no lesson table, the seeded
\* telemetry_events, no tagged row; target is sum(total) of mistake_mv_target
InitialDb ==
  [ tables |-> { }, target |-> 0,
    tagged |-> [ g \in 1 .. MaxMistakeRequests |-> 0 ] ]

\* the 13 Mistakes tab before its first request; seen holds what the queries
\* of the request returned, prev the previous request, errors the number of
\* requests answered with 400
IdleMistake ==
  [ pc |-> "idle", kind |-> "", prev |-> "", step |-> 0, tag |-> 0, served |-> 0,
    errors |-> 0, seen |-> << >>, res |-> NoResponse ]

\* a check of cluster/health: not started, in flight, resolved or rejected
Check(state, rows, error) == [ state |-> state, rows |-> rows, error |-> error ]

\* order is the order in which the two checks settled
IdleHealth ==
  [ pc |-> "idle", q |-> [ n \in Nodes |-> Check("none", << >>, "") ],
    order |-> << >>, res |-> [ status |-> 0 ] ]

\* what the seeding script leaves behind: every seeded user on its own shard
SeededLocal(seed) ==
  [ n \in Nodes |-> [ k \in Keys |->
      IF k \in SeedKeys /\ ShardOfKey[k] = n THEN seed[k] ELSE 0 ] ]

Init ==
  /\ \E seed \in [ SeedKeys -> 0 .. MaxSeedRows ] :
       /\ local = SeededLocal(seed)
       /\ written = [ k \in Keys |-> IF k \in SeedKeys THEN seed[k] ELSE 0 ]
  /\ distBuffer = [ k \in Keys |-> 0 ]
  /\ eventsReplicated = [ n \in Nodes |-> { } ]
  /\ now = 0
  /\ route = [ i \in RouteIds |-> IdleRoute ]
  /\ repl = [ j \in ReplIds |-> IdleRepl ]
  /\ reads = [ r \in ReadIds |-> IdleRead ]
  /\ ai = IdleAI
  /\ mcp = [ c \in McpIds |-> IdleMcp ]
  /\ rag = IdleRag
  /\ db = InitialDb
  /\ mistake = IdleMistake
  /\ health = [ i \in HealthIds |-> IdleHealth ]

\* ------------------------------------------------------------------------
\* The nodes
\* ------------------------------------------------------------------------
\* SELECT count() AS rows FROM cluster_demo.events_local WHERE user_id = k
CountLocal(n, k) == << [ rows |-> local[n][k] ] >>

\* SELECT count() AS cnt FROM cluster_demo.events_replicated WHERE message = m
CountReplicated(n, m) ==
  << [ cnt |-> IF m \in eventsReplicated[n] THEN 1 ELSE 0 ] >>

\* a Distributed engine that forwards a row to whichever shard has fewer rows
DistFlushBalanced(k) ==
  /\ distBuffer[k] > 0
  /\ distBuffer' = [ distBuffer EXCEPT ![k] = @ - 1 ]
  /\ LET n == IF local[Node1][k] < local[Node2][k] THEN Node1 ELSE Node2
     IN  local' = [ local EXCEPT ![n][k] = @ + 1 ]
  /\ UNCHANGED << written, eventsReplicated, now, route, repl, reads, ai,
                     mcp, rag, db, mistake, health >>

\* the Distributed engine forwards a buffered row to the shard of its key
DistFlush(k) ==
  /\ distBuffer[k] > 0
  /\ distBuffer' = [ distBuffer EXCEPT ![k] = @ - 1 ]
  /\ local' = [ local EXCEPT ![ShardOfKey[k]][k] = @ + 1 ]
  /\ UNCHANGED << written, eventsReplicated, now, route, repl, reads, ai,
                     mcp, rag, db, mistake, health >>

\* node2 pulls a part of events_replicated that node1 logged in Keeper
KeeperReplicate(m) ==
  /\ m \in eventsReplicated[Node1]
  /\ m \notin eventsReplicated[Node2]
  /\ eventsReplicated' = [ eventsReplicated EXCEPT ![Node2] = @ \cup { m } ]
  /\ UNCHANGED << local, distBuffer, written, now, route, repl, reads, ai,
                     mcp, rag, db, mistake, health >>

Tick ==
  /\ now + TickMs <= MaxTicks * TickMs
  /\ now' = now + TickMs
  /\ UNCHANGED << local, distBuffer, written, eventsReplicated, route, repl, reads, ai,
                     mcp, rag, db, mistake, health >>

\* ------------------------------------------------------------------------
\* POST /api/cluster/insert-and-route
\* ------------------------------------------------------------------------
\* request bodies: a user_id posted by the client, or none
PostedKeys == { KeyUser7 }
Bodies == { [ has_user_id |-> TRUE, user_id |-> k ] : k \in PostedKeys }
            \cup { [ has_user_id |-> FALSE, user_id |-> KeyEmpty ] }

\* the same, and a body whose user_id is the empty string
AnyKeyBodies == Bodies \cup { [ has_user_id |-> TRUE, user_id |-> KeyEmpty ] }

\* (await c.json())[0]?.rows || 0
FirstRows(rows) == IF Len(rows) = 0 THEN 0 ELSE rows[1].rows

\* const actualShard = shard1 > 0 ? 'node1 (shard 01)' : 'node2 (shard 02)'
ActualShard(shard1, shard2) == IF shard1 > 0 THEN Node1 ELSE Node2

RouteResponse(r) ==
  LET shard1 == FirstRows(r.c1.rows)
      shard2 == FirstRows(r.c2.rows)
  IN  [ status |-> 200,
        body |-> [ user_id |-> r.user_id,
                   shardKey |-> << "murmurHash3_32", r.user_id >>,
                   expectedShard |-> r.expectedShard,
                   actualShard |-> ActualShard(shard1, shard2),
                   node1Rows |-> shard1,
                   node2Rows |-> shard2 ] ]

\* the handler up to its first await: hash, expectedShard, then the insert is sent
RouteStart(i, b) ==
  /\ route[i].pc = "idle"
  /\ \A h \in RouteIds : h < i => route[h].pc # "idle"
  /\ LET user_id == BodyUserId(b)
         hash == RouteHashOf[user_id]
     IN  route' = [ route EXCEPT ![i] =
           [ @ EXCEPT !.pc = "insert", !.user_id = user_id, !.hash = hash,
                      !.expectedShard = ExpectedShard(hash),
                      !.rowsBefore = written[user_id] ] ]
  /\ UNCHANGED << local, distBuffer, written, eventsReplicated, now, repl, reads, ai,
                     mcp, rag, db, mistake, health >>

\* node1 acknowledges the insert into events_distributed; the handler resumes
\* and sends both count queries
RouteInsertAck(i) ==
  /\ route[i].pc = "insert"
  /\ distBuffer' = [ distBuffer EXCEPT ![route[i].user_id] = @ + 1 ]
  /\ written' = [ written EXCEPT ![route[i].user_id] = @ + 1 ]
  /\ route' = [ route EXCEPT ![i] =
       [ @ EXCEPT !.pc = "counts", !.c1 = Pending, !.c2 = Pending ] ]
  /\ UNCHANGED << local, eventsReplicated, now, repl, reads, ai,
                     mcp, rag, db, mistake, health >>

\* a handler that goes on to verify although the insert was rejected
RouteInsertFailThenCount(i) ==
  /\ route[i].pc = "insert"
  /\ route' = [ route EXCEPT ![i] =
       [ @ EXCEPT !.pc = "counts", !.c1 = Pending, !.c2 = Pending ] ]
  /\ UNCHANGED << local, distBuffer, written, eventsReplicated, now, repl, reads, ai,
                     mcp, rag, db, mistake, health >>

\* the insert is rejected: catch (e) -> 400
RouteInsertFail(i) ==
  /\ route[i].pc = "insert"
  /\ route' = [ route EXCEPT ![i] =
       [ @ EXCEPT !.pc = "done", !.res = ErrorResponse("insert failed") ] ]
  /\ UNCHANGED << local, distBuffer, written, eventsReplicated, now, repl, reads, ai,
                     mcp, rag, db, mistake, health >>

\* a node answers (or rejects) its count query
RouteCount(i, n, ok) ==
  /\ route[i].pc = "counts"
  /\ LET k == route[i].user_id
         ans == IF ok THEN Answered(CountLocal(n, k)) ELSE Failed
     IN  \/ /\ n = Node1
            /\ route[i].c1.state = "pending"
            /\ route' = [ route EXCEPT ![i] = [ @ EXCEPT !.c1 = ans ] ]
         \/ /\ n = Node2
            /\ route[i].c2.state = "pending"
            /\ route' = [ route EXCEPT ![i] = [ @ EXCEPT !.c2 = ans ] ]
  /\ UNCHANGED << local, distBuffer, written, eventsReplicated, now, repl, reads, ai,
                     mcp, rag, db, mistake, health >>

\* Promise.all settles: it rejects with the first rejection (catch -> 400),
\* or resolves when both queries have answered (res.json); the handler's
\* locals c1, c2 end with it
RouteRespond(i) ==
  /\ route[i].pc = "counts"
  /\ \/ /\ route[i].c1.state = "failed" \/ route[i].c2.state = "failed"
        /\ route' = [ route EXCEPT ![i] =
             [ @ EXCEPT !.pc = "done", !.c1 = NoQuery, !.c2 = NoQuery,
                        !.res = ErrorResponse("count query failed") ] ]
     \/ /\ route[i].c1.state = "ok" /\ route[i].c2.state = "ok"
        /\ route' = [ route EXCEPT ![i] =
             [ @ EXCEPT !.pc = "done", !.c1 = NoQuery, !.c2 = NoQuery,
                        !.res = RouteResponse(route[i]) ] ]
  /\ UNCHANGED << local, distBuffer, written, eventsReplicated, now, repl, reads, ai,
                     mcp, rag, db, mistake, health >>
\* ------------------------------------------------------------------------
\* POST /api/cluster/replicate-demo
\* ------------------------------------------------------------------------
\* (await q.json())[0]?.cnt || 0
FirstCnt(rows) == IF Len(rows) = 0 THEN 0 ELSE rows[1].cnt

\* what r.json() of a count on node2 can hold: the count row, or no row at
\* all (the [0]?. of the handler)
JsonRows(n, m) == { CountReplicated(n, m), << >> }

ReplicatedAfterGreater(beforeCount, afterCount) == afterCount > beforeCount

\* replicated: Number(afterCount) > 0
Replicated(beforeCount, afterCount) == afterCount > 0

ReplResponse(r, afterRows) ==
  LET beforeCount == FirstCnt(r.before.rows)
      afterCount == FirstCnt(afterRows)
  IN  [ status |-> 200,
        body |-> [ inserted |-> r.msg,
                   insertedOnNode |-> "node1 (replica-1)",
                   foundOnNode2Before |-> beforeCount,
                   foundOnNode2After |-> afterCount,
                   replicated |-> Replicated(beforeCount, afterCount) ] ]

\* the handler up to its first await: msg is built from the clock (one request
\* per millisecond, so the message is the request's own), the insert is sent
ReplStart(j) ==
  /\ repl[j].pc = "idle"
  /\ \A h \in ReplIds : h < j => repl[h].pc # "idle"
  /\ repl' = [ repl EXCEPT ![j] =
       [ @ EXCEPT !.pc = "insert", !.msg = j, !.start = now ] ]
  /\ UNCHANGED << local, distBuffer, written, eventsReplicated, now, route, reads, ai,
                     mcp, rag, db, mistake, health >>

\* node1 acknowledges the insert into events_replicated; the handler resumes
\* and sends the before-count to node2
ReplInsertAck(j) ==
  /\ repl[j].pc = "insert"
  /\ eventsReplicated' =
       [ eventsReplicated EXCEPT ![Node1] = @ \cup { repl[j].msg } ]
  /\ repl' = [ repl EXCEPT ![j] =
       [ @ EXCEPT !.pc = "before", !.before = Pending, !.issued = now ] ]
  /\ UNCHANGED << local, distBuffer, written, now, route, reads, ai,
                     mcp, rag, db, mistake, health >>

ReplInsertFail(j) ==
  /\ repl[j].pc = "insert"
  /\ repl' = [ repl EXCEPT ![j] =
       [ @ EXCEPT !.pc = "done", !.res = ErrorResponse("insert failed") ] ]
  /\ UNCHANGED << local, distBuffer, written, eventsReplicated, now, route, reads, ai,
                     mcp, rag, db, mistake, health >>

\* node2 answers the before-count and the handler arms the 1500 ms timer,
\* or node2 rejects the query: catch (e) -> 400
ReplBefore(j, ok) ==
  /\ repl[j].pc = "before"
  /\ IF ok
     THEN \E rows \in JsonRows(Node2, repl[j].msg) :
            repl' = [ repl EXCEPT ![j] =
              [ @ EXCEPT !.pc = "wait", !.waitStart = now,
                         !.before = Answered(rows) ] ]
     ELSE repl' = [ repl EXCEPT ![j] =
            [ @ EXCEPT !.pc = "done", !.before = Failed,
                       !.res = ErrorResponse("node2 query failed") ] ]
  /\ UNCHANGED << local, distBuffer, written, eventsReplicated, now, route, reads, ai,
                     mcp, rag, db, mistake, health >>

\* setTimeout(r, 1500) fires; the handler sends the after-count to node2
ReplTimer(j) ==
  /\ repl[j].pc = "wait"
  /\ now - repl[j].waitStart >= ReplWaitMs
  /\ repl' = [ repl EXCEPT ![j] =
       [ @ EXCEPT !.pc = "after", !.after = Pending, !.issued = now ] ]
  /\ UNCHANGED << local, distBuffer, written, eventsReplicated, now, route, reads, ai,
                     mcp, rag, db, mistake, health >>

\* a poll loop: an after-count of 0 arms the timer again
ReplAfterPoll(j, ok) ==
  /\ repl[j].pc = "after"
  /\ IF ok
     THEN \E rows \in JsonRows(Node2, repl[j].msg) :
            IF FirstCnt(rows) = 0
            THEN repl' = [ repl EXCEPT ![j] =
                   [ @ EXCEPT !.pc = "wait", !.waitStart = now,
                              !.after = Answered(rows) ] ]
            ELSE repl' = [ repl EXCEPT ![j] =
                   [ @ EXCEPT !.pc = "done", !.after = Answered(rows),
                              !.res = ReplResponse(repl[j], rows) ] ]
     ELSE repl' = [ repl EXCEPT ![j] =
            [ @ EXCEPT !.pc = "done", !.after = Failed,
                       !.res = ErrorResponse("node2 query failed") ] ]
  /\ UNCHANGED << local, distBuffer, written, eventsReplicated, now, route, reads, ai,
                     mcp, rag, db, mistake, health >>

\* node2 answers the after-count and the handler responds,
\* or node2 rejects the query: catch (e) -> 400
ReplAfter(j, ok) ==
  /\ repl[j].pc = "after"
  /\ IF ok
     THEN \E rows \in JsonRows(Node2, repl[j].msg) :
            repl' = [ repl EXCEPT ![j] =
              [ @ EXCEPT !.pc = "done", !.after = Answered(rows),
                         !.res = ReplResponse(repl[j], rows) ] ]
     ELSE repl' = [ repl EXCEPT ![j] =
            [ @ EXCEPT !.pc = "done", !.after = Failed,
                       !.res = ErrorResponse("node2 query failed") ] ]
  /\ UNCHANGED << local, distBuffer, written, eventsReplicated, now, route, reads, ai,
                     mcp, rag, db, mistake, health >>

\* ------------------------------------------------------------------------
\* GET /api/cluster/shard-counts and GET /api/cluster/replication-status
\* ------------------------------------------------------------------------
ShardCounts == "shard-counts"
ReplicationStatus == "replication-status"
ReadKinds == { ShardCounts, ReplicationStatus }

\* the node each query of the Promise.all goes to, in the order of the array
QueryNodes(kind) ==
  IF kind = ShardCounts THEN << Node1, Node2, Node1 >>
  ELSE << Node1, Node2, Node1, Node1 >>

RECURSIVE SumRows(_, _)
SumRows(f, ks) ==
  IF ks = { } THEN 0
  ELSE LET k == CHOOSE x \in ks : TRUE
       IN  f[k] + SumRows(f, ks \ { k })

\* SELECT count() AS rows, '<node>' AS node FROM cluster_demo.events_local
CountAllLocal(n) == << [ rows |-> SumRows(local[n], Keys), node |-> n ] >>

\* SELECT service, count() AS events FROM cluster_demo.events_distributed
\* GROUP BY service: one group per service that has rows on some shard
CountByService ==
  LET events == SumRows(local[Node1], Keys) + SumRows(local[Node2], Keys)
  IN  IF events = 0 THEN << >>
      ELSE << [ service |-> "frontend", events |-> events ] >>

\* SELECT count() AS rows, '<replica>' AS replica FROM cluster_demo.events_replicated
CountAllReplicated(n) ==
  << [ rows |-> Cardinality(eventsReplicated[n]),
       replica |-> IF n = Node1 THEN "replica-1 (node1)" ELSE "replica-2 (node2)" ] >>

\* the two reads of system.replicas on node1
ReplicaQueue ==
  << [ table |-> "events_replicated", replica_name |-> "replica-1" ] >>

ReplicaInfo ==
  << [ replica_name |-> "replica-1", total_replicas |-> 2 ] >>

\* the rows query number x of the handler returns
ReadRows(kind, x) ==
  IF kind = ShardCounts
  THEN IF x = 1 THEN CountAllLocal(Node1)
       ELSE IF x = 2 THEN CountAllLocal(Node2)
       ELSE CountByService
  ELSE IF x = 1 THEN CountAllReplicated(Node1)
       ELSE IF x = 2 THEN CountAllReplicated(Node2)
       ELSE IF x = 3 THEN ReplicaQueue
       ELSE ReplicaInfo

\* res.json({ shards | rowCounts: [...n1, ...n2], ... })
ReadResponse(kind, q) ==
  IF kind = ShardCounts
  THEN [ status |-> 200,
         body |-> [ shards |-> q[1].rows \o q[2].rows, byService |-> q[3].rows ] ]
  ELSE [ status |-> 200,
         body |-> [ rowCounts |-> q[1].rows \o q[2].rows, queue |-> q[3].rows,
                    replicaInfo |-> q[4].rows ] ]

\* the handler up to its await: all queries of the Promise.all are sent
ReadStart(r, kind) ==
  /\ reads[r].pc = "idle"
  /\ \A h \in ReadIds : h < r => reads[h].pc # "idle"
  /\ reads' = [ reads EXCEPT ![r] =
       [ @ EXCEPT !.pc = "queries", !.kind = kind,
                  !.q = [ x \in 1 .. Len(QueryNodes(kind)) |-> Pending ] ] ]
  /\ UNCHANGED << local, distBuffer, written, eventsReplicated, now, route, repl, ai,
                     mcp, rag, db, mistake, health >>

\* a node answers (or rejects) query number x
ReadAnswer(r, x, ok) ==
  /\ reads[r].pc = "queries"
  /\ x \in 1 .. Len(reads[r].q)
  /\ reads[r].q[x].state = "pending"
  /\ reads' = [ reads EXCEPT ![r].q[x] =
       IF ok THEN Answered(ReadRows(reads[r].kind, x)) ELSE Failed ]
  /\ UNCHANGED << local, distBuffer, written, eventsReplicated, now, route, repl, ai,
                     mcp, rag, db, mistake, health >>

\* Promise.all settles: it rejects with the first rejection (catch -> 400),
\* or resolves when every query has answered (res.json)
ReadRespond(r) ==
  /\ reads[r].pc = "queries"
  /\ LET q == reads[r].q
     IN  \/ /\ \E x \in 1 .. Len(q) : q[x].state = "failed"
            /\ reads' = [ reads EXCEPT ![r] =
                 [ @ EXCEPT !.pc = "done", !.res = ErrorResponse("query failed") ] ]
         \/ /\ \A x \in 1 .. Len(q) : q[x].state = "ok"
            /\ reads' = [ reads EXCEPT ![r] =
                 [ @ EXCEPT !.pc = "done", !.res = ReadResponse(reads[r].kind, q) ] ]
  /\ UNCHANGED << local, distBuffer, written, eventsReplicated, now, route, repl, ai,
                     mcp, rag, db, mistake, health >>

\* ------------------------------------------------------------------------
\* textToSQL (backend/ai.js)
\* ------------------------------------------------------------------------
\* Texts are sequences of tokens; " " and "\n" are the whitespace tokens.
Space == " "
Newline == "\n"
Whitespace == { Space, Newline }

RECURSIVE TrimStart(_)
TrimStart(t) ==
  IF t # << >> /\ Head(t) \in Whitespace THEN TrimStart(Tail(t)) ELSE t

RECURSIVE TrimEnd(_)
TrimEnd(t) ==
  IF t # << >> /\ t[Len(t)] \in Whitespace
  THEN TrimEnd(SubSeq(t, 1, Len(t) - 1))
  ELSE t

\* String.prototype.trim
Trim(t) == TrimEnd(TrimStart(t))

\* String.prototype.toUpperCase on the tokens of the model
ToUpperCase(w) ==
  IF w = "select" THEN "SELECT"
  ELSE IF w = "sql:" THEN "SQL:"
  ELSE IF w = "drop" THEN "DROP"
  ELSE w

\* .replace(/^SQL:\s*/i, '')
StripSqlLabel(t) ==
  IF t # << >> /\ ToUpperCase(Head(t)) = "SQL:" THEN TrimStart(Tail(t)) ELSE t

\* .split('\n')[0]
RECURSIVE FirstLine(_)
FirstLine(t) ==
  IF t = << >> \/ Head(t) = Newline THEN << >>
  ELSE << Head(t) >> \o FirstLine(Tail(t))

\* sql = sqlResponse.trim().replace(/^SQL:\s*/i, '').split('\n')[0].trim()
ExtractSql(sqlResponse) == Trim(FirstLine(StripSqlLabel(Trim(sqlResponse))))

\* a check that looks for SELECT anywhere in the statement
StartsWithSelectAnywhere(sql) ==
  \E x \in 1 .. Len(sql) : ToUpperCase(sql[x]) = "SELECT"

\* sql.toUpperCase().startsWith('SELECT')
StartsWithSelect(sql) == sql # << >> /\ ToUpperCase(Head(sql)) = "SELECT"

\* the markdown code fences, with and without the language tag
FenceSql == "[fence]sql"
Fence == "[fence]"

\* runQuery: .replace(/```sql\n?/gi, '').replace(/```\n?/g, '').trim()
RECURSIVE StripFences(_)
StripFences(t) ==
  IF t = << >> THEN << >>
  ELSE IF Head(t) \in { FenceSql, Fence }
       THEN IF Len(t) > 1 /\ t[2] = Newline
            THEN StripFences(Tail(Tail(t)))
            ELSE StripFences(Tail(t))
       ELSE << Head(t) >> \o StripFences(Tail(t))

CleanSql(sql) == Trim(StripFences(sql))

\* a loop that allows one more attempt
MAX_RETRIES_4 == 3 + 1

MAX_RETRIES == 3

\* what llama3.2 may answer to the SQL prompt
LlmResponses ==
  { << "SELECT", Space, "1" >>,
    << Space, "sql:", Space, "select", Space, "x", Newline, "because" >>,
    << "DROP", Space, "TABLE" >>,
    << "EXPLAIN", Space, "SELECT", Space, "1" >>,
    << FenceSql, Newline, "SELECT", Space, "1", Newline, Fence >>,
    << "SQL:", Newline, "drop", Space, "TABLE", Newline, "SELECT", Space, "1" >>,
    << "SELECT", Space, "x", Space, Fence >> }

\* what ClickHouse may answer to a statement
DbErrors == { "UNKNOWN_IDENTIFIER", "SYNTAX_ERROR" }
DbRows == { << >>, << [ total_events |-> 1 ] >> }

\* the system prompt and the few-shot user prompt
InitialMessages ==
  << [ role |-> "system", content |-> << "CLICKHOUSE_SCHEMA" >> ],
     [ role |-> "user", content |-> << "question" >> ] >>

AIError(kind, attempts, lastError, sql) ==
  [ kind |-> kind, attempts |-> attempts, lastError |-> lastError, sql |-> sql ]

\* textToSQL(question) is called; the loop starts and the first prompt is sent
textToSQL ==
  /\ ai.pc = "idle"
  /\ ai' = [ ai EXCEPT !.pc = "generate", !.attempt = 1,
                        !.messages = InitialMessages ]
  /\ UNCHANGED << local, distBuffer, written, eventsReplicated, now, route, repl, reads,
                     mcp, rag, db, mistake, health >>

\* a loop that feeds a statement that is not a SELECT back to the model
GenerateSqlFeedBack(sqlResponse) ==
  /\ ai.pc = "generate"
  /\ LET sql == ExtractSql(sqlResponse)
     IN  IF ~ StartsWithSelect(sql)
         THEN IF ai.attempt = MAX_RETRIES
              THEN ai' = [ ai EXCEPT !.pc = "done", !.sql = sql,
                             !.generations = @ + 1,
                             !.res = AIError("not a SELECT query", ai.attempt, ai.lastError, sql) ]
              ELSE ai' = [ ai EXCEPT !.sql = sql, !.generations = @ + 1,
                             !.attempt = @ + 1,
                             !.messages = @ \o
                               << [ role |-> "assistant", content |-> sql ],
                                  [ role |-> "user",
                                    content |-> << "That SQL failed", "not a SELECT query" >> ] >> ]
         ELSE ai' = [ ai EXCEPT !.pc = "run", !.sql = sql,
                        !.generations = @ + 1,
                        !.sent = Append(@, CleanSql(sql)) ]
  /\ UNCHANGED << local, distBuffer, written, eventsReplicated, now, route, repl, reads,
                     mcp, rag, db, mistake, health >>

\* ollamaChat answers the SQL prompt: the statement is extracted and checked;
\* a statement that passes is handed to runQuery, which sends it
GenerateSql(sqlResponse) ==
  /\ ai.pc = "generate"
  /\ LET sql == ExtractSql(sqlResponse)
     IN  IF ~ StartsWithSelect(sql)
         THEN ai' = [ ai EXCEPT !.pc = "done", !.sql = sql,
                        !.generations = @ + 1,
                        !.res = AIError("not a SELECT query", ai.attempt, ai.lastError, sql) ]
         ELSE ai' = [ ai EXCEPT !.pc = "run", !.sql = sql,
                        !.generations = @ + 1,
                        !.sent = Append(@, CleanSql(sql)) ]
  /\ UNCHANGED << local, distBuffer, written, eventsReplicated, now, route, repl, reads,
                     mcp, rag, db, mistake, health >>

\* ollamaChat throws (response.ok is false): the call ends with that error
OllamaFail ==
  /\ ai.pc \in { "generate", "summarize" }
  /\ ai' = [ ai EXCEPT !.pc = "done",
                        !.res = AIError("Ollama error", ai.attempt, ai.lastError, ai.sql) ]
  /\ UNCHANGED << local, distBuffer, written, eventsReplicated, now, route, repl, reads,
                     mcp, rag, db, mistake, health >>

\* ClickHouse returns rows: break, then the summary prompt is sent
RunQueryOk(rows) ==
  /\ ai.pc = "run"
  /\ ai' = [ ai EXCEPT !.pc = "summarize", !.rows = rows,
                        !.outcomes = Append(@, "ok") ]
  /\ UNCHANGED << local, distBuffer, written, eventsReplicated, now, route, repl, reads,
                     mcp, rag, db, mistake, health >>

\* a loop that appends the feedback before it looks at the attempt number
RunQueryFailPushFirst(err) ==
  /\ ai.pc = "run"
  /\ LET pushed == ai.messages \o
                      << [ role |-> "assistant", content |-> ai.sql ],
                         [ role |-> "user", content |-> << "That SQL failed", err >> ] >>
     IN  IF ai.attempt = MAX_RETRIES
         THEN ai' = [ ai EXCEPT !.pc = "done", !.lastError = err,
                        !.outcomes = Append(@, err), !.messages = pushed,
                        !.res = AIError("SQL failed", MAX_RETRIES, err, ai.sql) ]
         ELSE ai' = [ ai EXCEPT !.pc = "generate", !.lastError = err,
                        !.outcomes = Append(@, err),
                        !.attempt = @ + 1, !.messages = pushed ]
  /\ UNCHANGED << local, distBuffer, written, eventsReplicated, now, route, repl, reads,
                     mcp, rag, db, mistake, health >>

\* ClickHouse rejects the statement: the last attempt throws, an earlier one
\* feeds the error back to the model and generates again
RunQueryFail(err) ==
  /\ ai.pc = "run"
  /\ IF ai.attempt = MAX_RETRIES
     THEN ai' = [ ai EXCEPT !.pc = "done", !.lastError = err,
                    !.outcomes = Append(@, err),
                    !.res = AIError("SQL failed", MAX_RETRIES, err, ai.sql) ]
     ELSE ai' = [ ai EXCEPT !.pc = "generate", !.lastError = err,
                    !.outcomes = Append(@, err),
                    !.attempt = @ + 1,
                    !.messages = @ \o
                      << [ role |-> "assistant", content |-> ai.sql ],
                         [ role |-> "user", content |-> << "That SQL failed", err >> ] >> ]
  /\ UNCHANGED << local, distBuffer, written, eventsReplicated, now, route, repl, reads,
                     mcp, rag, db, mistake, health >>

\* ollamaChat answers the summary prompt: the call returns its result
Summarize ==
  /\ ai.pc = "summarize"
  /\ ai' = [ ai EXCEPT !.pc = "done",
                        !.res = [ kind |-> "result", sql |-> ai.sql,
                                  rows |-> ai.rows, rowCount |-> Len(ai.rows) ] ]
  /\ UNCHANGED << local, distBuffer, written, eventsReplicated, now, route, repl, reads,
                     mcp, rag, db, mistake, health >>

\* ------------------------------------------------------------------------
\* The MCP server (mcp-server.js)
\* ------------------------------------------------------------------------
\* the cases of the switch (the four summary tools behave alike: optional
\* arguments with defaults, one runQuery)
ToolNames ==
  { "list_tables", "get_schema", "query_clickhouse", "get_telemetry_summary",
    "get_cluster_status" }

\* the names a client may send
RequestNames == ToolNames \cup { "drop_tables" }

\* the statements a client may send to query_clickhouse
McpStatements ==
  { << "SELECT", Space, "1" >>,
    << Space, "select", Space, "x", Newline >>,
    << "DROP", Space, "TABLE" >>,
    << "EXPLAIN", Space, "SELECT", Space, "1" >>,
    << >> }

\* request.params.arguments: parses says whether the Zod schema of the tool
\* accepts them (the field is there and is a string)
McpArgs == [ parses : BOOLEAN, sql : McpStatements ]

McpError(code, message) ==
  [ type |-> "McpError", code |-> code, message |-> message ]

\* a check that looks for SELECT anywhere in the statement
OnlySelectAnywhere(sql) ==
  \E x \in 1 .. Len(sql) : ToUpperCase(sql[x]) = "SELECT"

\* sql.trim().toUpperCase().startsWith('SELECT')
OnlySelect(sql) ==
  LET t == Trim(sql) IN t # << >> /\ ToUpperCase(Head(t)) = "SELECT"

\* a catch block that wraps whatever was thrown
CatchToolErrorWrapAll(error) ==
  McpError("InternalError", << "Tool error", error.message >>)

\* catch (error) { if (error instanceof McpError) throw error; throw new McpError(...) }
CatchToolError(error) ==
  IF error.type = "McpError" THEN error
  ELSE McpError("InternalError", << "Tool error", error.message >>)

\* the request arrives and the handler runs up to its first await, or throws
CallTool(c, name, args) ==
  /\ mcp[c].pc = "idle"
  /\ LET call == [ mcp[c] EXCEPT !.name = name, !.args = args ]
         Throw(e) == [ call EXCEPT !.pc = "done", !.thrown = e,
                         !.res = [ kind |-> "error", error |-> CatchToolError(e) ] ]
         Query(q) == [ call EXCEPT !.pc = "query", !.stage = 1, !.sent = << q >> ]
         ZodError == [ type |-> "ZodError", code |-> "none", message |-> << "Required" >> ]
     IN  mcp' = [ mcp EXCEPT ![c] =
           CASE name = "list_tables" -> Query(<< "system.tables" >>)
             [] name = "get_schema" ->
                  IF args.parses THEN Query(<< "system.columns" >>) ELSE Throw(ZodError)
             [] name = "query_clickhouse" ->
                  IF ~ args.parses THEN Throw(ZodError)
                  ELSE IF ~ OnlySelect(args.sql)
                       THEN Throw(McpError("InvalidParams",
                                           << "Only SELECT queries are allowed" >>))
                       ELSE Query(args.sql)
             [] name = "get_telemetry_summary" -> Query(<< "demo.telemetry_events" >>)
             [] name = "get_cluster_status" -> Query(<< "system.clusters" >>)
             [] OTHER -> Throw(McpError("MethodNotFound", << "Unknown tool", name >>)) ]
  /\ UNCHANGED << local, distBuffer, written, eventsReplicated, now, route, repl, reads, ai,
                     rag, db, mistake, health >>

\* runQuery resolves
McpQueryOk(c, rows) ==
  /\ mcp[c].pc = "query"
  /\ LET call == mcp[c]
     IN  mcp' = [ mcp EXCEPT ![c] =
           IF call.name = "get_schema" /\ rows = << >>
           THEN LET e == McpError("InvalidParams", << "Table not found" >>)
                IN  [ call EXCEPT !.pc = "done", !.thrown = e,
                        !.res = [ kind |-> "error", error |-> CatchToolError(e) ] ]
           ELSE IF call.name = "get_cluster_status" /\ call.stage = 1
           THEN [ call EXCEPT !.stage = 2, !.topology = rows,
                    !.sent = Append(@, << "system.replicas" >>) ]
           ELSE IF call.name = "get_cluster_status"
           THEN [ call EXCEPT !.pc = "done",
                    !.res = [ kind |-> "result",
                              rows |-> << call.topology, rows >> ] ]
           ELSE [ call EXCEPT !.pc = "done",
                    !.res = [ kind |-> "result", rows |-> rows ] ] ]
  /\ UNCHANGED << local, distBuffer, written, eventsReplicated, now, route, repl, reads, ai,
                     rag, db, mistake, health >>

\* runQuery rejects: get_cluster_status catches it itself, the other tools
\* let it reach the catch block of the handler
McpQueryFail(c, err) ==
  /\ mcp[c].pc = "query"
  /\ LET call == mcp[c]
         e == [ type |-> "Error", code |-> "none", message |-> << err >> ]
     IN  mcp' = [ mcp EXCEPT ![c] =
           IF call.name = "get_cluster_status" /\ call.stage = 1
           THEN [ call EXCEPT !.stage = 2,
                    !.topology = << [ error |-> "Could not reach cluster nodes" ] >>,
                    !.sent = Append(@, << "system.replicas" >>) ]
           ELSE IF call.name = "get_cluster_status"
           THEN [ call EXCEPT !.pc = "done",
                    !.res = [ kind |-> "result",
                              rows |-> << call.topology, << >> >> ] ]
           ELSE [ call EXCEPT !.pc = "done", !.thrown = e,
                    !.res = [ kind |-> "error", error |-> CatchToolError(e) ] ] ]
  /\ UNCHANGED << local, distBuffer, written, eventsReplicated, now, route, repl, reads, ai,
                     rag, db, mistake, health >>

\* ------------------------------------------------------------------------
\* The RAG knowledge base (backend/ai.js)
\* ------------------------------------------------------------------------
\* seedRAGKnowledge() is called: the count query is sent
seedRAGKnowledge ==
  /\ rag.pc \in { "idle", "done" }
  /\ rag.calls < MaxSeedCalls
  /\ rag' = [ rag EXCEPT !.pc = "count", !.calls = @ + 1, !.doc = 0, !.res = "none" ]
  /\ UNCHANGED << local, distBuffer, written, eventsReplicated, now, route, repl, reads, ai,
                     mcp, db, mistake, health >>

\* SELECT count() AS n FROM demo.knowledge_embeddings settles: a count above 0
\* returns, a rejection is swallowed by the empty catch; without the table the
\* query is always rejected
SeedCount(ok) ==
  /\ rag.pc = "count"
  /\ ok => rag.table
  /\ rag' = IF ok /\ \E d \in DOMAIN rag.indexed : rag.indexed[d] > 0
            THEN [ rag EXCEPT !.pc = "done", !.res = "already seeded" ]
            ELSE [ rag EXCEPT !.pc = "init" ]
  /\ UNCHANGED << local, distBuffer, written, eventsReplicated, now, route, repl, reads, ai,
                     mcp, db, mistake, health >>

\* CREATE TABLE IF NOT EXISTS demo.knowledge_embeddings settles
initRAGTable(ok) ==
  /\ rag.pc = "init"
  /\ rag' = IF ok
            THEN [ rag EXCEPT !.pc = "index", !.doc = 1, !.table = TRUE ]
            ELSE [ rag EXCEPT !.pc = "done", !.res = "error" ]
  /\ UNCHANGED << local, distBuffer, written, eventsReplicated, now, route, repl, reads, ai,
                     mcp, db, mistake, health >>

\* indexDocument of the next document settles: its chunks are embedded and
\* inserted with one insert, or an embedding or the insert throws
indexDocument(ok) ==
  /\ rag.pc = "index"
  /\ rag' = IF ~ ok
            THEN [ rag EXCEPT !.pc = "done", !.res = "error" ]
            ELSE IF rag.doc = Len(KNOWLEDGE_BASE)
            THEN [ rag EXCEPT !.indexed[rag.doc] = @ + 1,
                              !.pc = "done", !.res = "seeded" ]
            ELSE [ rag EXCEPT !.indexed[rag.doc] = @ + 1, !.doc = @ + 1 ]
  /\ UNCHANGED << local, distBuffer, written, eventsReplicated, now, route, repl, reads, ai,
                     mcp, db, mistake, health >>

\* ------------------------------------------------------------------------
\* The 13 Mistakes tab (backend/server.js)
\* ------------------------------------------------------------------------
\* a handler is the sequence of the statements it awaits
Cmd(op, t) == [ op |-> op, t |-> t, caught |-> FALSE ]

ROWS == 15
BlockSize == 3

partsWrong ==
  << Cmd("DROP", "mistake_parts_demo"),
     Cmd("CREATE", "mistake_parts_demo"),
     Cmd("STOP MERGES", "mistake_parts_demo") >>
  \o [ i \in 1 .. ROWS |-> Cmd("INSERT", "mistake_parts_demo") ]
  \o << Cmd("SELECT system", "mistake_parts_demo") >>

partsFixed ==
  << Cmd("DROP", "mistake_parts_good"),
     Cmd("CREATE", "mistake_parts_good"),
     Cmd("INSERT", "mistake_parts_good"),
     Cmd("SELECT system", "mistake_parts_good") >>

\* a reset whose SYSTEM START MERGES has no .catch
partsResetUncaught ==
  << Cmd("START MERGES", "mistake_parts_demo"),
     Cmd("DROP", "mistake_parts_demo"),
     Cmd("DROP", "mistake_parts_good") >>

partsReset ==
  << [ Cmd("START MERGES", "mistake_parts_demo") EXCEPT !.caught = TRUE ],
     Cmd("DROP", "mistake_parts_demo"),
     Cmd("DROP", "mistake_parts_good") >>

nullableWrong ==
  << Cmd("DROP", "mistake_nullable_bad"),
     Cmd("CREATE", "mistake_nullable_bad"),
     Cmd("INSERT", "mistake_nullable_bad"),
     Cmd("OPTIMIZE", "mistake_nullable_bad"),
     Cmd("SELECT system", "mistake_nullable_bad"),
     Cmd("SELECT system", "mistake_nullable_bad") >>

nullableFixed ==
  << Cmd("DROP", "mistake_nullable_good"),
     Cmd("CREATE", "mistake_nullable_good"),
     Cmd("INSERT", "mistake_nullable_good"),
     Cmd("OPTIMIZE", "mistake_nullable_good"),
     Cmd("SELECT system", "mistake_nullable_good"),
     Cmd("SELECT system", "mistake_nullable_good") >>

nullableReset ==
  << Cmd("DROP", "mistake_nullable_bad"),
     Cmd("DROP", "mistake_nullable_good") >>

mvWrong ==
  << Cmd("DROP", "mistake_mv_demo"),
     Cmd("DROP", "mistake_mv_target"),
     Cmd("CREATE", "mistake_mv_target"),
     Cmd("CREATE", "mistake_mv_demo"),
     Cmd("SELECT sum", "mistake_mv_target"),
     Cmd("SELECT count", "telemetry_events") >>

mvFixed ==
  << Cmd("BACKFILL", "mistake_mv_target"),
     Cmd("SELECT sum", "mistake_mv_target"),
     Cmd("SELECT sum", "mistake_mv_target") >>

mvReset ==
  << Cmd("DROP", "mistake_mv_demo"),
     Cmd("DROP", "mistake_mv_target") >>

dedupDemo ==
  << Cmd("INSERT block", "telemetry_events"),
     Cmd("SELECT tag", "telemetry_events"),
     Cmd("INSERT block", "telemetry_events"),
     Cmd("SELECT tag", "telemetry_events"),
     Cmd("DELETE tag", "telemetry_events") >>

dedupWrong ==
  << Cmd("INSERT block", "telemetry_events"),
     Cmd("SELECT tag", "telemetry_events"),
     Cmd("INSERT block", "telemetry_events"),
     Cmd("SELECT tag", "telemetry_events"),
     Cmd("DELETE tag", "telemetry_events") >>

\* the routes under /api/mistakes/
Handler(kind) ==
  CASE kind = "parts-wrong" -> partsWrong
    [] kind = "parts-fixed" -> partsFixed
    [] kind = "parts-reset" -> partsReset
    [] kind = "nullable-wrong" -> nullableWrong
    [] kind = "nullable-fixed" -> nullableFixed
    [] kind = "nullable-reset" -> nullableReset
    [] kind = "mv-wrong" -> mvWrong
    [] kind = "mv-fixed" -> mvFixed
    [] kind = "mv-reset" -> mvReset
    [] kind = "dedup-demo" -> dedupDemo
    [] kind = "dedup-wrong" -> dedupWrong

\* SELECT count() FROM telemetry_events
EventsTotal(d) == SeedEvents + SumRows(d.tagged, DOMAIN d.tagged)

\* what ClickHouse answers to a statement it cannot run: "" when it can
Rejects(cmd, d) ==
  IF /\ cmd.op \in { "STOP MERGES", "START MERGES", "INSERT", "OPTIMIZE",
                     "SELECT sum", "BACKFILL" }
     /\ cmd.t \notin d.tables
  THEN "UNKNOWN_TABLE"
  ELSE IF cmd.op = "CREATE" /\ cmd.t \in d.tables
  THEN "TABLE_ALREADY_EXISTS"
  ELSE ""

\* the database after the statement; mistake_mv_demo pushes every block
\* inserted into telemetry_events to mistake_mv_target
Apply(cmd, d, tag, dedup) ==
  CASE cmd.op = "DROP" ->
         [ d EXCEPT !.tables = @ \ { cmd.t },
                    !.target = IF cmd.t = "mistake_mv_target" THEN 0 ELSE @ ]
    [] cmd.op = "CREATE" -> [ d EXCEPT !.tables = @ \cup { cmd.t } ]
    [] cmd.op = "INSERT block" ->
         IF dedup THEN d
         ELSE [ d EXCEPT !.tagged[tag] = @ + BlockSize,
                         !.target =
                           IF { "mistake_mv_demo", "mistake_mv_target" } \subseteq d.tables
                           THEN @ + BlockSize ELSE @ ]
    [] cmd.op = "DELETE tag" -> [ d EXCEPT !.tagged[tag] = 0 ]
    [] cmd.op = "BACKFILL" -> [ d EXCEPT !.target = @ + EventsTotal(d) ]
    [] OTHER -> d

\* what a query returns to the handler
Observe(cmd, d, tag) ==
  CASE cmd.op = "SELECT sum" -> << d.target >>
    [] cmd.op = "SELECT count" -> << EventsTotal(d) >>
    [] cmd.op = "SELECT tag" -> << d.tagged[tag] >>
    [] OTHER -> << >>

\* res.json({ ... }) of each route
MistakeResponse(kind, seen) ==
  [ status |-> 200,
    body |->
      CASE kind = "mv-wrong" ->
             [ mvCreated |-> TRUE, sourceRows |-> seen[2], mvEventSum |-> seen[1] ]
        [] kind = "mv-fixed" -> [ backfilled |-> TRUE, grandTotal |-> seen[2] ]
        [] kind = "dedup-demo" ->
             [ blockSize |-> BlockSize, countAfterInsert1 |-> seen[1],
               countAfterInsert2 |-> seen[2], deduplicated |-> seen[1] = seen[2] ]
        [] kind = "dedup-wrong" ->
             [ blockSize |-> BlockSize, afterInsert1 |-> seen[1],
               afterInsert2 |-> seen[2], duplicated |-> seen[2] > seen[1] ]
        [] OTHER -> [ ok |-> TRUE ] ]

\* a button of the tab is pressed once the previous request has responded; the
\* tag of a dedup request is its Date.now()
MistakeStart(kind) ==
  /\ mistake.pc \in { "idle", "done" }
  /\ mistake.served < MaxMistakeRequests
  /\ mistake' = [ pc |-> "run", kind |-> kind, prev |-> mistake.kind, step |-> 1,
                  tag |-> mistake.served + 1, served |-> mistake.served + 1,
                  errors |-> mistake.errors, seen |-> << >>, res |-> NoResponse ]
  /\ UNCHANGED << local, distBuffer, written, eventsReplicated, now, route, repl, reads, ai,
                     mcp, rag, db, health >>

\* ClickHouse answers the awaited statement: it runs, or it is rejected for the
\* table it names; dedup says that the block was seen before and is dropped
MistakeStep(dedup) ==
  /\ mistake.pc = "run"
  /\ LET cmd == Handler(mistake.kind)[mistake.step]
         err == Rejects(cmd, db)
         last == mistake.step = Len(Handler(mistake.kind))
         seen == mistake.seen \o
                   (IF err = "" THEN Observe(cmd, db, mistake.tag) ELSE << >>)
     IN  /\ dedup => cmd.op = "INSERT block" /\ db.tagged[mistake.tag] > 0
         /\ IF err # "" /\ ~ cmd.caught
            THEN /\ db' = db
                 /\ mistake' = [ mistake EXCEPT !.pc = "done", !.errors = @ + 1,
                                                !.res = ErrorResponse(err) ]
            ELSE /\ db' = IF err # "" THEN db
                          ELSE Apply(cmd, db, mistake.tag, dedup)
                 /\ mistake' =
                      IF last
                      THEN [ mistake EXCEPT !.pc = "done", !.seen = seen,
                               !.res = MistakeResponse(mistake.kind, seen) ]
                      ELSE [ mistake EXCEPT !.step = @ + 1, !.seen = seen ]
  /\ UNCHANGED << local, distBuffer, written, eventsReplicated, now, route, repl, reads, ai,
                     mcp, rag, health >>

\* the awaited statement does not reach ClickHouse
MistakeFail ==
  /\ mistake.pc = "run"
  /\ LET cmd == Handler(mistake.kind)[mistake.step]
         last == mistake.step = Len(Handler(mistake.kind))
     IN  mistake' =
           IF ~ cmd.caught
           THEN [ mistake EXCEPT !.pc = "done", !.errors = @ + 1,
                    !.res = ErrorResponse("ECONNRESET") ]
           ELSE IF last
           THEN [ mistake EXCEPT !.pc = "done",
                    !.res = MistakeResponse(mistake.kind, mistake.seen) ]
           ELSE [ mistake EXCEPT !.step = @ + 1 ]
  /\ UNCHANGED << local, distBuffer, written, eventsReplicated, now, route, repl, reads, ai,
                     mcp, rag, db, health >>

\* ------------------------------------------------------------------------
\* GET /api/cluster/health (backend/server.js)
\* ------------------------------------------------------------------------
HealthLabel(n) == IF n = Node1 THEN "clickhouse-node1" ELSE "clickhouse-node2"
HealthPort(n) == IF n = Node1 THEN 8124 ELSE 8125

\* how the query of a node may settle: with its row, with no row, or rejected
HealthOutcomes(n) ==
  { Check("ok", << [ ver |-> "24.3", shard |-> n, replica |-> "01" ] >>, ""),
    Check("ok", << >>, ""),
    Check("failed", << >>, << "connect ECONNREFUSED", HealthPort(n) >>) }

\* the check helper, applied to a settled query
check(c, label, port) ==
  IF c.state = "ok"
  THEN IF c.rows = << >>
       THEN [ node |-> label, port |-> port, status |-> "up" ]
       ELSE [ node |-> label, port |-> port, status |-> "up",
              ver |-> c.rows[1].ver, shard |-> c.rows[1].shard,
              replica |-> c.rows[1].replica ]
  ELSE [ node |-> label, port |-> port, status |-> "down", error |-> c.error ]

\* the request arrives: both checks send their query
HealthStart(i) ==
  /\ health[i].pc = "idle"
  /\ health' = [ health EXCEPT ![i].pc = "checking",
                   ![i].q = [ n \in Nodes |-> Check("pending", << >>, "") ] ]
  /\ UNCHANGED << local, distBuffer, written, eventsReplicated, now, route, repl, reads, ai,
                     mcp, rag, db, mistake >>

\* the query of one node settles
HealthAnswer(i, n, a) ==
  /\ health[i].pc = "checking"
  /\ health[i].q[n].state = "pending"
  /\ health' = [ health EXCEPT ![i].q[n] = a, ![i].order = Append(@, n) ]
  /\ UNCHANGED << local, distBuffer, written, eventsReplicated, now, route, repl, reads, ai,
                     mcp, rag, db, mistake >>

\* a handler that lists the nodes in the order their checks settled
HealthRespondAsSettled(i) ==
  /\ health[i].pc = "checking"
  /\ \A n \in Nodes : health[i].q[n].state \in { "ok", "failed" }
  /\ health' = [ health EXCEPT ![i].pc = "done",
                   ![i].res = [ status |-> 200,
                     body |-> [ nodes |->
                       [ x \in 1 .. 2 |->
                           check(health[i].q[health[i].order[x]],
                                 HealthLabel(health[i].order[x]),
                                 HealthPort(health[i].order[x])) ] ] ] ]
  /\ UNCHANGED << local, distBuffer, written, eventsReplicated, now, route, repl, reads, ai,
                     mcp, rag, db, mistake >>

\* Promise.all has resolved: res.json({ nodes: [n1, n2] })
HealthRespond(i) ==
  /\ health[i].pc = "checking"
  /\ \A n \in Nodes : health[i].q[n].state \in { "ok", "failed" }
  /\ health' = [ health EXCEPT ![i].pc = "done",
                   ![i].res = [ status |-> 200,
                     body |-> [ nodes |->
                       << check(health[i].q[Node1], HealthLabel(Node1), HealthPort(Node1)),
                          check(health[i].q[Node2], HealthLabel(Node2), HealthPort(Node2)) >> ] ] ]
  /\ UNCHANGED << local, distBuffer, written, eventsReplicated, now, route, repl, reads, ai,
                     mcp, rag, db, mistake >>

\* ------------------------------------------------------------------------
\* Specifications
\* ------------------------------------------------------------------------
\* the two handlers share no state: each is checked with its own nodes
NextRouteOf(bodies) ==
  \/ \E k \in Keys : DistFlush(k)
  \/ \E i \in RouteIds, b \in bodies : RouteStart(i, b)
  \/ \E i \in RouteIds : RouteInsertAck(i)
  \/ \E i \in RouteIds : RouteInsertFail(i)
  \/ \E i \in RouteIds, n \in Nodes, ok \in BOOLEAN : RouteCount(i, n, ok)
  \/ \E i \in RouteIds : RouteRespond(i)

NextRoute == NextRouteOf(Bodies)

NextRouteAnyKey == NextRouteOf(AnyKeyBodies)

NextRepl ==
  \/ \E m \in ReplIds : KeeperReplicate(m)
  \/ Tick
  \/ \E j \in ReplIds : ReplStart(j)
  \/ \E j \in ReplIds : ReplInsertAck(j)
  \/ \E j \in ReplIds : ReplInsertFail(j)
  \/ \E j \in ReplIds, ok \in BOOLEAN : ReplBefore(j, ok)
  \/ \E j \in ReplIds : ReplTimer(j)
  \/ \E j \in ReplIds, ok \in BOOLEAN : ReplAfter(j, ok)

SpecRoute == Init /\ [][NextRoute]_vars

\* the same handler, posted the empty user_id as well
SpecRouteAnyKey == Init /\ [][NextRouteAnyKey]_vars

\* the event loop runs a handler whose Promise.all has settled; the nodes owe
\* no answer
SpecRouteFair ==
  Init /\ [][NextRoute]_vars /\ \A i \in RouteIds : WF_vars(RouteRespond(i))

SpecRepl == Init /\ [][NextRepl]_vars

\* the multi-node reads
NextRead ==
  \/ \E r \in ReadIds, kind \in ReadKinds : ReadStart(r, kind)
  \/ \E r \in ReadIds, x \in 1 .. 4, ok \in BOOLEAN : ReadAnswer(r, x, ok)
  \/ \E r \in ReadIds : ReadRespond(r)

SpecRead == Init /\ [][NextRead]_vars

\* the awaits of textToSQL: a request to Ollama, a request to ClickHouse
OllamaSettles ==
  \/ OllamaFail
  \/ Summarize
  \/ \E sqlResponse \in LlmResponses : GenerateSql(sqlResponse)

ClickHouseSettles ==
  \/ \E rows \in DbRows : RunQueryOk(rows)
  \/ \E err \in DbErrors : RunQueryFail(err)

NextAI ==
  \/ textToSQL
  \/ OllamaSettles
  \/ ClickHouseSettles

SpecAI == Init /\ [][NextAI]_vars

\* Ollama and ClickHouse answer or reject every request they are sent
SpecAIFair ==
  /\ Init /\ [][NextAI]_vars
  /\ WF_vars(textToSQL)
  /\ WF_vars(OllamaSettles)
  /\ WF_vars(ClickHouseSettles)

\* the tool calls of an MCP client
NextMcp ==
  \/ \E c \in McpIds, name \in RequestNames, args \in McpArgs : CallTool(c, name, args)
  \/ \E c \in McpIds, rows \in DbRows : McpQueryOk(c, rows)
  \/ \E c \in McpIds, err \in DbErrors : McpQueryFail(c, err)

SpecMcp == Init /\ [][NextMcp]_vars

\* start-ups of the backend, one after the other
NextRag ==
  \/ seedRAGKnowledge
  \/ \E ok \in BOOLEAN : SeedCount(ok)
  \/ \E ok \in BOOLEAN : initRAGTable(ok)
  \/ \E ok \in BOOLEAN : indexDocument(ok)

SpecRag == Init /\ [][NextRag]_vars

\* the buttons of the lessons that create tables, and of the lessons that
\* write to telemetry_events
ResetLessons ==
  { "parts-wrong", "parts-fixed", "parts-reset",
    "nullable-wrong", "nullable-fixed", "nullable-reset",
    "mv-wrong", "mv-fixed", "mv-reset" }

EventLessons == { "mv-wrong", "mv-fixed", "mv-reset", "dedup-demo", "dedup-wrong" }

NextMistakesOf(kinds) ==
  \/ \E kind \in kinds : MistakeStart(kind)
  \/ \E dedup \in BOOLEAN : MistakeStep(dedup)
  \/ MistakeFail

NextReset == NextMistakesOf(ResetLessons)

NextEvents == NextMistakesOf(EventLessons)

SpecReset == Init /\ [][NextReset]_vars

SpecEvents == Init /\ [][NextEvents]_vars

\* the polls of the cluster page
NextHealth ==
  \/ \E i \in HealthIds : HealthStart(i)
  \/ \E i \in HealthIds, n \in Nodes : \E a \in HealthOutcomes(n) : HealthAnswer(i, n, a)
  \/ \E i \in HealthIds : HealthRespond(i)

SpecHealth == Init /\ [][NextHealth]_vars

\* events_local may also hold rows that did not come through the Distributed
\* table (written to a node directly, or placed under an earlier topology)
DirectKeys == { KeyUser7 }

InitDirect ==
  /\ \E rows \in [ Nodes -> [ DirectKeys -> 0 .. MaxSeedRows ] ] :
       /\ local = [ n \in Nodes |-> [ k \in Keys |->
                      IF k \in DirectKeys THEN rows[n][k] ELSE 0 ] ]
       /\ written = [ k \in Keys |->
                      IF k \in DirectKeys THEN rows[Node1][k] + rows[Node2][k] ELSE 0 ]
  /\ distBuffer = [ k \in Keys |-> 0 ]
  /\ eventsReplicated = [ n \in Nodes |-> { } ]
  /\ now = 0
  /\ route = [ i \in RouteIds |-> IdleRoute ]
  /\ repl = [ j \in ReplIds |-> IdleRepl ]
  /\ reads = [ r \in ReadIds |-> IdleRead ]
  /\ ai = IdleAI
  /\ mcp = [ c \in McpIds |-> IdleMcp ]
  /\ rag = IdleRag
  /\ db = InitialDb
  /\ mistake = IdleMistake
  /\ health = [ i \in HealthIds |-> IdleHealth ]

SpecRouteDirect == InitDirect /\ [][NextRoute]_vars
\* ------------------------------------------------------------------------
\* Properties
\* ------------------------------------------------------------------------
Responded(r) == r.pc = "done"
Succeeded(r) == r.pc = "done" /\ r.res.status = 200
Carries(body, field) == field \in DOMAIN body
OtherNode(n) == IF n = Node1 THEN Node2 ELSE Node1
RowsAt(body, n) == IF n = Node1 THEN body.node1Rows ELSE body.node2Rows

ExpectedIsRoutedShard ==
  \A i \in RouteIds :
    Succeeded(route[i])
    => route[i].res.body.expectedShard = ShardOfKey[route[i].user_id]

\* C3: a successful response for a key that had no rows before reports a
\* count > 0 for the shard the row is routed to and exactly 0 for the other.
PlacementRoundTrip ==
  \A i \in RouteIds :
    ( Succeeded(route[i]) /\ route[i].rowsBefore = 0 )
    => LET s == ShardOfKey[route[i].user_id]
       IN  /\ RowsAt(route[i].res.body, s) > 0
           /\ RowsAt(route[i].res.body, OtherNode(s)) = 0

\* C4: when the response is produced with one count query rejected and the
\* other answered, it carries the answered count and marks the failed node
\* unreachable.
ReportsIsolated(r, body, failed, rows) ==
  /\ Carries(body, "unreachable")
  /\ failed \in body.unreachable
  /\ Carries(body, "node1Rows")
  /\ Carries(body, "node2Rows")
  /\ RowsAt(body, OtherNode(failed)) = FirstRows(rows)

UnreachableIsolation ==
  [][ \A i \in RouteIds :
        ( route[i].pc = "counts" /\ route'[i].pc = "done" )
        => /\ ( route[i].c1.state = "failed" /\ route[i].c2.state = "ok" )
              => ReportsIsolated(route[i], route'[i].res.body, Node1, route[i].c2.rows)
           /\ ( route[i].c2.state = "failed" /\ route[i].c1.state = "ok" )
              => ReportsIsolated(route[i], route'[i].res.body, Node2, route[i].c1.rows)
    ]_vars

\* C5 as stated: replicated is true exactly when the after-count is greater
\* than the before-count.
ReplicatedIffAfterGreater ==
  \A j \in ReplIds :
    Succeeded(repl[j])
    => ( repl[j].res.body.replicated
         <=> repl[j].res.body.foundOnNode2After > repl[j].res.body.foundOnNode2Before )

\* C5 amended: replicated is true exactly when the after-count is greater
\* than zero.
ReplicatedIffAfterPositive ==
  \A j \in ReplIds :
    Succeeded(repl[j])
    => ( repl[j].res.body.replicated <=> repl[j].res.body.foundOnNode2After > 0 )

\* the row had reached node2 before the before-count already
ReplicatedIffAfterPositiveWitness ==
  \E j \in ReplIds :
    /\ Succeeded(repl[j])
    /\ repl[j].res.body.foundOnNode2Before = 1
    /\ repl[j].res.body.foundOnNode2After = 1
    /\ repl[j].res.body.replicated

\* C6: a replicate-demo request never waits for an answer of node2 for
\* longer than the time budget, so that it returns within it.
ReplTimeoutCeiling ==
  \A j \in ReplIds :
    repl[j].pc \in { "before", "after" } => now - repl[j].issued <= ReplWaitMs

\* C7: a replicate-demo request whose before- or after-count was rejected by
\* node2 has answered with a replication result: replicated = false and an
\* error annotation.
GracefulDegradation ==
  \A j \in ReplIds :
    ( /\ Responded(repl[j])
      /\ repl[j].before.state = "failed" \/ repl[j].after.state = "failed" )
    => /\ Carries(repl[j].res.body, "replicated")
       /\ repl[j].res.body.replicated = FALSE
       /\ Carries(repl[j].res.body, "error")

RowsConserved ==
  [][ \A i \in RouteIds :
        ( /\ route[i].pc = "counts"
          /\ ~ ( route[i].c1.state = "ok" /\ route[i].c2.state = "ok" )
          /\ route'[i].c1.state = "ok"
          /\ route'[i].c2.state = "ok" )
        => FirstRows(route'[i].c1.rows) + FirstRows(route'[i].c2.rows)
             = written'[route[i].user_id]
    ]_vars

\* C10: a request with an empty user_id is answered with an error and sends
\* neither the insert nor a count query.
EmptyKeyRejected ==
  \A i \in RouteIds :
    ( route[i].pc # "idle" /\ route[i].user_id = KeyEmpty )
    => /\ route[i].pc = "done"
       /\ route[i].res.status = 400
       /\ written[KeyEmpty] = 0

\* C11: a replicate-demo response is of exactly one of three classes
\* (replicated, not replicated, could not determine), and a request whose
\* before- or after-read of node2 failed or came back empty is answered
\* "could not determine": never with replicated = false or a count of 0.
DeterminedTrue(res) ==
  /\ res.status = 200
  /\ Carries(res.body, "replicated")
  /\ res.body.replicated

DeterminedFalse(res) ==
  /\ res.status = 200
  /\ Carries(res.body, "replicated")
  /\ ~ res.body.replicated

CouldNotDetermine(res) ==
  /\ res.status # 200
  /\ Carries(res.body, "error")
  /\ ~ Carries(res.body, "replicated")
  /\ ~ Carries(res.body, "foundOnNode2Before")
  /\ ~ Carries(res.body, "foundOnNode2After")

NoReading(q) == q.state = "failed" \/ ( q.state = "ok" /\ Len(q.rows) = 0 )

ReplOrder ==
  { << "idle", "insert" >>, << "insert", "before" >>, << "insert", "done" >>,
    << "before", "wait" >>, << "before", "done" >>, << "wait", "after" >>,
    << "after", "done" >> }

SingleDelayOneRecheck ==
  [][ \A j \in ReplIds :
        LET r == repl[j]
            rn == repl'[j]
        IN  /\ r.pc # rn.pc => << r.pc, rn.pc >> \in ReplOrder
            /\ ( rn.before.state = "pending" /\ r.before.state # "pending" )
               => /\ r.pc = "insert" /\ r.before.state = "none"
                  /\ r.msg \in eventsReplicated'[Node1]
            /\ ( r.pc = "before" /\ rn.pc = "wait" )
               => rn.waitStart = now /\ rn.after.state = "none"
            /\ ( rn.after.state = "pending" /\ r.after.state # "pending" )
               => /\ r.pc = "wait" /\ r.after.state = "none"
                  /\ r.before.state = "ok"
                  /\ now - r.waitStart >= ReplWaitMs
            /\ ( r.pc # "done" /\ rn.pc = "done" /\ rn.res.status = 200 )
               => /\ r.pc = "after"
                  /\ rn.res.body.foundOnNode2Before = FirstCnt(r.before.rows)
                  /\ rn.res.body.foundOnNode2After = FirstCnt(rn.after.rows)
            /\ r.pc = "done" => rn = r
    ]_vars

\* a request that found nothing before the wait and the row after it
SingleDelayOneRecheckWitness ==
  \E j \in ReplIds :
    /\ Succeeded(repl[j])
    /\ repl[j].res.body.foundOnNode2Before = 0
    /\ repl[j].res.body.foundOnNode2After = 1
    /\ now - repl[j].waitStart >= ReplWaitMs

\* C15: a shard-counts or replication-status request that is answered after
\* the count of one node was rejected and every query of the other node was
\* answered, is answered with a result that carries the other node's rows.
NodeFailed(q, kind, n) ==
  /\ \E x \in 1 .. Len(q) : QueryNodes(kind)[x] = n /\ q[x].state = "failed"
  /\ \A x \in 1 .. Len(q) : QueryNodes(kind)[x] # n => q[x].state = "ok"

CarriesRowsOf(res, kind, rows) ==
  /\ res.status = 200
  /\ LET field == IF kind = ShardCounts THEN "shards" ELSE "rowCounts"
     IN  /\ Carries(res.body, field)
         /\ \E y \in 1 .. Len(res.body[field]) : res.body[field][y] = rows[1]

PerNodeFailuresIsolated ==
  \A r \in ReadIds :
    Responded(reads[r])
    => LET q == reads[r].q
           kind == reads[r].kind
       IN  /\ NodeFailed(q, kind, Node2) => CarriesRowsOf(reads[r].res, kind, q[1].rows)
           /\ NodeFailed(q, kind, Node1) => CarriesRowsOf(reads[r].res, kind, q[2].rows)

\* C12: the two count queries of a request are sent together (node2's while
\* node1's is still unanswered), and a request responds only after both of
\* them have settled.
Settled(q) == q.state \in { "ok", "failed" }

FanOutJoined ==
  [][ \A i \in RouteIds :
        /\ ( route[i].c2.state = "none" /\ route'[i].c2.state # "none" )
           => /\ route[i].c1.state = "none"
              /\ route'[i].c1.state = "pending"
              /\ route'[i].c2.state = "pending"
        /\ ( route[i].c1.state = "none" /\ route'[i].c1.state # "none" )
           => route'[i].c2.state = "pending"
        /\ ( route[i].pc = "counts" /\ route'[i].pc = "done" )
           => Settled(route[i].c1) /\ Settled(route[i].c2)
    ]_vars

\* C13: a request moves idle -> insert -> counts -> done (or insert -> done
\* when the insert is rejected); expectedShard is fixed when the insert is
\* sent, count queries are sent only in the step that acknowledges the
\* insert, a rejected insert sends none, and a result is sent only after both
\* counts were answered.
RouteOrder ==
  { << "idle", "insert" >>, << "insert", "counts" >>,
    << "insert", "done" >>, << "counts", "done" >> }

RouterWriteVerifierResponse ==
  [][ \A i \in RouteIds :
        LET r == route[i]
            rn == route'[i]
            k == rn.user_id
        IN  /\ r.pc # rn.pc => << r.pc, rn.pc >> \in RouteOrder
            /\ ( r.pc = "idle" /\ rn.pc = "insert" )
               => /\ rn.expectedShard = ExpectedShard(RouteHashOf[k])
                  /\ written' = written
                  /\ rn.c1 = NoQuery /\ rn.c2 = NoQuery
            /\ r.pc # "idle" => rn.expectedShard = r.expectedShard
            /\ ( rn.c1 # NoQuery \/ rn.c2 # NoQuery ) /\ r.c1 = NoQuery /\ r.c2 = NoQuery
               => /\ r.pc = "insert"
                  /\ written'[k] = written[k] + 1
            /\ ( r.pc = "insert" /\ rn.pc = "done" )
               => /\ rn.res.status = 400
                  /\ rn.c1 = NoQuery /\ rn.c2 = NoQuery
            /\ ( r.pc # "done" /\ rn.pc = "done" /\ rn.res.status = 200 )
               => /\ r.pc = "counts"
                  /\ r.c1.state = "ok" /\ r.c2.state = "ok"
            /\ r.pc = "done" => rn = r
    ]_vars

\* one request was answered with counts, another had its insert rejected
RouterWriteVerifierResponseWitness ==
  \E i, h \in RouteIds :
    /\ Succeeded(route[i])
    /\ route[h].pc = "done"
    /\ route[h].res = ErrorResponse("insert failed")

\* C16: a request that has sent its count queries is eventually answered,
\* also when a node never answers its query.
VerificationCompletes ==
  \A i \in RouteIds : ( route[i].pc = "counts" ) ~> ( route[i].pc = "done" )

\* C17: the hash of every request, and of every user id of HashInputs, is an
\* unsigned 32-bit value (both halves in 0 .. 65535), and hash % 2 is 0 or 1.
IsUint32(h) == h[1] \in 0 .. ( W16 - 1 ) /\ h[2] \in 0 .. ( W16 - 1 )

HashInputsAreUint32 ==
  \A s \in HashInputs :
    IsUint32(RouteHashOf[s]) /\ JsMod2(RouteHashOf[s]) \in { 0, 1 }

HashIsUint32 ==
  /\ \A i \in RouteIds :
       route[i].pc # "idle"
       => IsUint32(route[i].hash) /\ JsMod2(route[i].hash) \in { 0, 1 }
  /\ HashInputsAreUint32

\* some user id of HashInputs wraps the signed accumulator below zero
HashInputsWrap == \E s \in HashInputs : StringHash(s)[1] < 0

\* a request for 'user-7', whose signed accumulator has wrapped below zero
HashIsUint32Witness ==
  \E i \in RouteIds :
    /\ route[i].pc # "idle"
    /\ route[i].user_id = KeyUser7
    /\ StringHash(KeyUser7)[1] < 0
    /\ route[i].hash[1] >= W15
    /\ HashInputsWrap

BeginsWithSelect(stmt) == Len(stmt) > 0 /\ stmt[1] \in { "SELECT", "select" }

SelectOnly ==
  /\ \A x \in 1 .. Len(ai.sent) : BeginsWithSelect(ai.sent[x])
  /\ Len(ai.sent) <= ai.generations
  /\ ( ai.pc = "done" /\ ai.res.kind = "not a SELECT query" )
     => /\ ~ BeginsWithSelect(ai.sql)
        /\ Len(ai.sent) = ai.generations - 1

\* the second statement of a call was rejected as not a SELECT, after the first
\* one had been run
SelectOnlyWitness ==
  /\ ai.pc = "done"
  /\ ai.res.kind = "not a SELECT query"
  /\ ai.generations = 2
  /\ Len(ai.sent) = 1

\* C20: a textToSQL call generates and runs at most 3 statements, generates
\* nothing after a statement ran successfully, ends after a third failed
\* run with an error that carries the error of that run, and always ends.
BoundedRetries ==
  /\ ai.generations <= 3
  /\ Len(ai.sent) <= 3
  /\ Len(ai.outcomes) <= Len(ai.sent)
  /\ \A x \in 1 .. Len(ai.outcomes) :
       ai.outcomes[x] = "ok"
       => /\ x = Len(ai.outcomes)
          /\ Len(ai.sent) = x
          /\ ai.generations = x
  /\ ( Len(ai.outcomes) = 3 /\ ai.outcomes[3] # "ok" )
     => /\ ai.pc = "done"
        /\ ai.res.kind = "SQL failed"
        /\ ai.res.lastError = ai.outcomes[3]

TrimmedBeginsWithSelect(stmt) ==
  LET s == Trim(stmt) IN s # << >> /\ Head(s) \in { "SELECT", "select" }

McpSelectOnly ==
  \A c \in McpIds :
    ( /\ mcp[c].pc # "idle"
      /\ mcp[c].name = "query_clickhouse"
      /\ mcp[c].args.parses
      /\ ~ TrimmedBeginsWithSelect(mcp[c].args.sql) )
    => /\ mcp[c].pc = "done"
       /\ mcp[c].sent = << >>
       /\ mcp[c].res.kind = "error"
       /\ mcp[c].res.error.type = "McpError"
       /\ mcp[c].res.error.code = "InvalidParams"

\* C21 witness: EXPLAIN SELECT 1 was rejected, and a lower-case select with
\* leading white space is possible
McpSelectOnlyWitness ==
  \E c \in McpIds :
    /\ mcp[c].pc = "done"
    /\ mcp[c].name = "query_clickhouse"
    /\ mcp[c].args = [ parses |-> TRUE, sql |-> << "EXPLAIN", Space, "SELECT", Space, "1" >> ]
    /\ mcp[c].res.kind = "error"
    /\ mcp[c].sent = << >>

\* C30: a tool call that failed ended with an McpError and nothing else: an
\* unknown tool name with MethodNotFound, an McpError raised inside the
\* handler unchanged, any other failure (a rejected query, arguments the
\* schema refuses) with InternalError.
FailedCallsAreMcpErrors ==
  \A c \in McpIds :
    mcp[c].pc = "done" =>
      /\ mcp[c].res.kind \in { "result", "error" }
      /\ mcp[c].res.kind = "error" <=> mcp[c].thrown.type # "none"
      /\ mcp[c].name \notin ToolNames =>
           /\ mcp[c].res.kind = "error"
           /\ mcp[c].res.error.code = "MethodNotFound"
      /\ mcp[c].res.kind = "error" =>
           /\ mcp[c].res.error.type = "McpError"
           /\ mcp[c].thrown.type = "McpError" => mcp[c].res.error = mcp[c].thrown
           /\ mcp[c].thrown.type # "McpError" =>
                mcp[c].res.error.code = "InternalError"

\* C30 witness: get_schema found no such table and its InvalidParams error
\* came out of the handler as it was raised
FailedCallsAreMcpErrorsWitness ==
  \E c \in McpIds :
    /\ mcp[c].pc = "done"
    /\ mcp[c].name = "get_schema"
    /\ mcp[c].sent # << >>
    /\ mcp[c].thrown.type = "McpError"
    /\ mcp[c].res.error.code = "InvalidParams"

\* C27: the step in which a generation turns out not to be a SELECT ends the
\* call with the "not a SELECT" error, on whichever attempt: the conversation
\* and the statements sent to ClickHouse stay as they were (nothing is fed
\* back, nothing is run), and a call that has ended takes no further step (no
\* further attempt, no summary prompt).
NonSelectEndsCall ==
  [][ /\ ( /\ ai.pc = "generate"
           /\ ai'.generations = ai.generations + 1
           /\ ~ BeginsWithSelect(ai'.sql) )
         => /\ ai'.pc = "done"
            /\ ai'.res.kind = "not a SELECT query"
            /\ ai'.res.attempts = ai.attempt
            /\ ai'.messages = ai.messages
            /\ ai'.sent = ai.sent
            /\ ai'.outcomes = ai.outcomes
      /\ ai.pc = "done" => ai' = ai ]_vars

\* C27 witness: the second generation, made after one failed statement, was
\* not a SELECT and ended the call
NonSelectEndsCallWitness ==
  /\ ai.pc = "done"
  /\ ai.res.kind = "not a SELECT query"
  /\ ai.attempt = 2
  /\ ai.generations = 2
  /\ Len(ai.messages) = 4
  /\ Len(ai.sent) = 1

\* C28: the conversation is the two initial prompts followed by one pair per
\* failed statement, in the order the statements failed: the statement as the
\* assistant's turn, then the error ClickHouse gave for it. The n-th
\* generation is asked with the n-1 pairs of the earlier attempts; a success
\* appends nothing, and neither does the failure of the last attempt.
FeedbackPairs == (Len(ai.messages) - Len(InitialMessages)) \div 2

ActualShardHasRows ==
  \A i \in RouteIds :
    Succeeded(route[i]) =>
      RowsAt(route[i].res.body, route[i].res.body.actualShard) > 0

\* C22: whatever seedRAGKnowledge calls were made, no document of the
\* knowledge base has been inserted into demo.knowledge_embeddings twice.
IndexedAtMostOnce ==
  \A d \in DOMAIN rag.indexed : rag.indexed[d] <= 1

\* C23: when parts-reset, nullable-reset or mv-reset has answered 200, no
\* table or view of its lesson exists, whatever requests were served before;
\* and a reset is never refused for a table that is not there: the only
\* error a reset answers with is the one of an unreachable server.
LessonTables(kind) ==
  CASE kind = "parts-reset" -> { "mistake_parts_demo", "mistake_parts_good" }
    [] kind = "nullable-reset" -> { "mistake_nullable_bad", "mistake_nullable_good" }
    [] kind = "mv-reset" -> { "mistake_mv_demo", "mistake_mv_target" }
    [] OTHER -> { }

ResetKinds == { "parts-reset", "nullable-reset", "mv-reset" }

ResetDropsAll ==
  ( mistake.pc = "done" /\ mistake.kind \in ResetKinds ) =>
    /\ mistake.res.status = 200 => LessonTables(mistake.kind) \cap db.tables = { }
    /\ mistake.res.status # 200 =>
         /\ mistake.res.status = 400
         /\ mistake.res.body.error = "ECONNRESET"

\* C23 witness: parts-reset answered 200 right after another parts-reset,
\* with nothing left to drop, while tables of another lesson exist
ResetDropsAllWitness ==
  /\ mistake.pc = "done"
  /\ mistake.kind = "parts-reset"
  /\ mistake.prev = "parts-reset"
  /\ mistake.served = 3
  /\ mistake.res.status = 200
  /\ "mistake_mv_target" \in db.tables

\* C24: as long as every request of the tab has succeeded, every mv-fixed
\* response (the target exists, so an mv-wrong came before) reports a
\* grandTotal equal to the number of rows in telemetry_events, and every
\* mv-wrong response reports 0 captured events.
BackfillMatchesSource ==
  ( mistake.pc = "done" /\ mistake.res.status = 200 /\ mistake.errors = 0 ) =>
    /\ mistake.kind = "mv-fixed" =>
         mistake.res.body.grandTotal = SeedEvents + SumRows(db.tagged, DOMAIN db.tagged)
    /\ mistake.kind = "mv-wrong" => mistake.res.body.mvEventSum = 0

\* C29: once a dedup-demo or dedup-wrong request has responded, with 200 or
\* with 400, telemetry_events holds no row with the tag of that request.
DedupLeavesNoRows ==
  ( mistake.pc = "done" /\ mistake.kind \in { "dedup-demo", "dedup-wrong" } ) =>
    db.tagged[mistake.tag] = 0

\* C26: every cluster/health response is a 200 with exactly two entries,
\* node1 first and node2 second in whatever order their queries settled,
\* each 'up' or 'down'; an entry is 'down', and carries the error of its own
\* query, exactly when that query was rejected.
HealthEntryOk(i, entry, n, label) ==
  /\ entry.node = label
  /\ entry.status \in { "up", "down" }
  /\ entry.status = "down" <=> health[i].q[n].state = "failed"
  /\ entry.status = "down" => entry.error = health[i].q[n].error

HealthAlwaysTwoEntries ==
  \A i \in HealthIds :
    health[i].pc = "done" =>
      /\ health[i].res.status = 200
      /\ Len(health[i].res.body.nodes) = 2
      /\ HealthEntryOk(i, health[i].res.body.nodes[1], Node1, "clickhouse-node1")
      /\ HealthEntryOk(i, health[i].res.body.nodes[2], Node2, "clickhouse-node2")

\* C26 witness: node2 answered first and is up, node1 was rejected afterwards
\* and is down, and the response lists node1 first
HealthAlwaysTwoEntriesWitness ==
  \E i \in HealthIds :
    /\ health[i].pc = "done"
    /\ health[i].order = << Node2, Node1 >>
    /\ health[i].res.body.nodes[1].status = "down"
    /\ health[i].res.body.nodes[2].status = "up"
====
